---- MODULE Spec2Model ----
(***************************************************************************)
(* smtp2http: the per-message SMTP handler that normalises a parsed mail   *)
(* into the EmailMessage record and relays it to the webhook.              *)
(*                                                                         *)
(* The handler modelled is the closure of src/unnamed/part_000 (lines      *)
(* 41-132).  Lines 81-131 of it (addresses, domain check, attachment and   *)
(* embedded-file loops, POST, result) are line for line the same as lines  *)
(* 50-100 of src/main.go.                                                  *)
(*                                                                         *)
(* A Go string and a []byte are both a sequence of byte values (0..255).   *)
(***************************************************************************)
EXTENDS Integers, Sequences, FiniteSets, TLC

\* ------------------------------------------------------------ byte strings

\* ASCII codes of the characters the string literals below are written with.
Ord ==
    (" " :> 32) @@ ("!" :> 33) @@ ("+" :> 43) @@ ("-" :> 45) @@ ("." :> 46) @@ ("/" :> 47)
    @@ ("0" :> 48) @@ ("1" :> 49) @@ ("2" :> 50) @@ ("3" :> 51) @@ ("4" :> 52) @@ ("5" :> 53)
    @@ ("6" :> 54) @@ ("7" :> 55) @@ ("8" :> 56) @@ ("9" :> 57) @@ ("=" :> 61) @@ ("?" :> 63)
    @@ ("@" :> 64) @@ ("A" :> 65) @@ ("B" :> 66) @@ ("C" :> 67) @@ ("D" :> 68) @@ ("E" :> 69)
    @@ ("F" :> 70) @@ ("G" :> 71) @@ ("H" :> 72) @@ ("I" :> 73) @@ ("J" :> 74) @@ ("K" :> 75)
    @@ ("L" :> 76) @@ ("M" :> 77) @@ ("N" :> 78) @@ ("O" :> 79) @@ ("P" :> 80) @@ ("Q" :> 81)
    @@ ("R" :> 82) @@ ("S" :> 83) @@ ("T" :> 84) @@ ("U" :> 85) @@ ("V" :> 86) @@ ("W" :> 87)
    @@ ("X" :> 88) @@ ("Y" :> 89) @@ ("Z" :> 90) @@ ("a" :> 97) @@ ("b" :> 98) @@ ("c" :> 99)
    @@ ("d" :> 100) @@ ("e" :> 101) @@ ("f" :> 102) @@ ("g" :> 103) @@ ("h" :> 104) @@ ("i" :> 105)
    @@ ("j" :> 106) @@ ("k" :> 107) @@ ("l" :> 108) @@ ("m" :> 109) @@ ("n" :> 110) @@ ("o" :> 111)
    @@ ("p" :> 112) @@ ("q" :> 113) @@ ("r" :> 114) @@ ("s" :> 115) @@ ("t" :> 116) @@ ("u" :> 117)
    @@ ("v" :> 118) @@ ("w" :> 119) @@ ("x" :> 120) @@ ("y" :> 121) @@ ("z" :> 122)

\* The byte string written as a tuple of one-character strings.
B(t) == [i \in 1..Len(t) |-> Ord[t[i]]]

\* strings.HasPrefix
HasPrefix(s, p) == Len(s) >= Len(p) /\ SubSeq(s, 1, Len(p)) = p

\* strings.HasSuffix
HasSuffix(s, p) == Len(s) >= Len(p) /\ SubSeq(s, Len(s) - Len(p) + 1, Len(s)) = p

\* strings.Split(s, sep) for a one-byte separator c: always at least one part.
RECURSIVE Split(_, _)
Split(s, c) ==
    LET idx == {i \in 1..Len(s) : s[i] = c}
    IN  IF idx = {} THEN <<s>>
        ELSE LET i == CHOOSE j \in idx : \A k \in idx : j <= k
             IN  <<SubSeq(s, 1, i - 1)>> \o Split(SubSeq(s, i + 1, Len(s)), c)

\* strings.ToLower on the ASCII range.
ToLower(s) == [i \in 1..Len(s) |-> IF s[i] \in 65..90 THEN s[i] + 32 ELSE s[i]]

\* ----------------------------------------------------------------- base64

\* The value of a character of the standard alphabet, -1 for any other byte.
B64Val(c) ==
    IF c \in 65..90 THEN c - 65
    ELSE IF c \in 97..122 THEN c - 71
    ELSE IF c \in 48..57 THEN c + 4
    ELSE IF c = 43 THEN 62
    ELSE IF c = 47 THEN 63
    ELSE -1

\* The character of a 6-bit value in the standard alphabet.
B64Chr(v) ==
    IF v < 26 THEN v + 65
    ELSE IF v < 52 THEN v + 71
    ELSE IF v < 62 THEN v - 4
    ELSE IF v = 62 THEN 43
    ELSE 47

\* base64.StdEncoding.EncodeToString: 3 bytes to 4 characters, '=' padded.
RECURSIVE EncodeToString(_)
EncodeToString(d) ==
    IF Len(d) = 0 THEN <<>>
    ELSE IF Len(d) = 1 THEN
        <<B64Chr(d[1] \div 4), B64Chr((d[1] % 4) * 16), 61, 61>>
    ELSE IF Len(d) = 2 THEN
        <<B64Chr(d[1] \div 4), B64Chr((d[1] % 4) * 16 + d[2] \div 16),
          B64Chr((d[2] % 16) * 4), 61>>
    ELSE
        <<B64Chr(d[1] \div 4), B64Chr((d[1] % 4) * 16 + d[2] \div 16),
          B64Chr((d[2] % 16) * 4 + d[3] \div 64), B64Chr(d[3] % 64)>>
        \o EncodeToString(SubSeq(d, 4, Len(d)))

\* One quantum of 4 characters; last tells whether padding may appear.
DecodeQuad(q, last) ==
    LET v == [i \in 1..4 |-> B64Val(q[i])]
    IN  IF v[1] < 0 \/ v[2] < 0 THEN [err |-> TRUE, bytes |-> <<>>]
        ELSE IF q[3] = 61 THEN
            IF last /\ q[4] = 61
            THEN [err |-> FALSE, bytes |-> <<v[1] * 4 + v[2] \div 16>>]
            ELSE [err |-> TRUE, bytes |-> <<>>]
        ELSE IF v[3] < 0 THEN [err |-> TRUE, bytes |-> <<>>]
        ELSE IF q[4] = 61 THEN
            IF last
            THEN [err |-> FALSE,
                  bytes |-> <<v[1] * 4 + v[2] \div 16,
                              (v[2] % 16) * 16 + v[3] \div 4>>]
            ELSE [err |-> TRUE, bytes |-> <<>>]
        ELSE IF v[4] < 0 THEN [err |-> TRUE, bytes |-> <<>>]
        ELSE [err |-> FALSE,
              bytes |-> <<v[1] * 4 + v[2] \div 16,
                          (v[2] % 16) * 16 + v[3] \div 4,
                          (v[3] % 4) * 64 + v[4]>>]

\* base64.StdEncoding.DecodeString (padded, non-strict) on input without
\* CR or LF: an error for a length that is no multiple of 4, a byte outside
\* the alphabet or misplaced padding.
RECURSIVE DecodeString(_)
DecodeString(s) ==
    IF Len(s) = 0 THEN [err |-> FALSE, bytes |-> <<>>]
    ELSE IF Len(s) < 4 THEN [err |-> TRUE, bytes |-> <<>>]
    ELSE LET q    == DecodeQuad(SubSeq(s, 1, 4), Len(s) = 4)
             rest == DecodeString(SubSeq(s, 5, Len(s)))
         IN  IF q.err \/ rest.err THEN [err |-> TRUE, bytes |-> <<>>]
             ELSE [err |-> FALSE, bytes |-> q.bytes \o rest.bytes]

\* ---------------------------------------------------------------- charsets

Utf8 == B(<<"u", "t", "f", "-", "8">>)
W1255 == B(<<"w", "i", "n", "d", "o", "w", "s", "-", "1", "2", "5", "5">>)
Latin == B(<<"i", "s", "o", "-", "8", "8", "5", "9", "-", "1">>)

\* getEncodingByName: the name of the encoding chosen for a charset name.
getEncodingByName(name) ==
    IF ToLower(name) = W1255 THEN W1255 ELSE Utf8

\* The windows-1255 decoder's UTF-8 output for one byte: ASCII unchanged,
\* 0xE0..0xFA the Hebrew letters U+05D0..U+05EA; every other byte is written
\* here as U+FFFD (the inputs of this model hold no such byte).
DecodeByte1255(b) ==
    IF b < 128 THEN <<b>>
    ELSE IF b \in 224..250 THEN <<215, 144 + (b - 224)>>
    ELSE <<239, 191, 189>>

RECURSIVE Decode1255(_)
Decode1255(d) ==
    IF Len(d) = 0 THEN <<>>
    ELSE DecodeByte1255(d[1]) \o Decode1255(SubSeq(d, 2, Len(d)))

\* convertToUTF8(data, charsetName).  ioErr is the outcome of the library's
\* ioutil.ReadAll(reader) on the transforming reader (line 175): TRUE when it
\* returns an error.  The reader exists only for a non-utf-8 encoding.
convertToUTF8(data, charsetName, ioErr) ==
    IF getEncodingByName(charsetName) # Utf8 THEN
        IF ioErr THEN [val |-> <<>>, err |-> TRUE]
        ELSE [val |-> Decode1255(data), err |-> FALSE]
    ELSE [val |-> data, err |-> FALSE]

\* decodeCharset(encodedBody, charsetName)
decodeCharset(encodedBody, charsetName, ioErr) ==
    convertToUTF8(encodedBody, charsetName, ioErr)

\* A plausible change of decodeMIMEHeader: an encoding other than B is
\* reported as an error instead of falling through to the raw return.
decodeMIMEHeaderStrict(encoded, ioErr) ==
    IF HasPrefix(encoded, <<61, 63>>) /\ HasSuffix(encoded, <<63, 61>>) THEN
        LET sections == Split(encoded, 63)
        IN  IF Len(sections) # 5 THEN [val |-> <<>>, err |-> TRUE]
            ELSE IF ToLower(sections[3]) = <<98>> THEN
                LET dec == DecodeString(sections[4])
                IN  IF dec.err THEN [val |-> <<>>, err |-> TRUE]
                    ELSE convertToUTF8(dec.bytes, ToLower(sections[2]), ioErr)
            ELSE [val |-> <<>>, err |-> TRUE]
    ELSE [val |-> encoded, err |-> FALSE]

\* decodeMIMEHeader(encoded): [val, err].
decodeMIMEHeader(encoded, ioErr) ==
    IF HasPrefix(encoded, <<61, 63>>) /\ HasSuffix(encoded, <<63, 61>>) THEN
        LET sections == Split(encoded, 63)
        IN  IF Len(sections) # 5 THEN [val |-> <<>>, err |-> TRUE]
            ELSE IF ToLower(sections[3]) = <<98>> THEN
                LET dec == DecodeString(sections[4])
                IN  IF dec.err THEN [val |-> <<>>, err |-> TRUE]
                    ELSE convertToUTF8(dec.bytes, ToLower(sections[2]), ioErr)
            ELSE [val |-> encoded, err |-> FALSE]
    ELSE [val |-> encoded, err |-> FALSE]

\* ------------------------------------------------------------------ bounds

\* Concurrent handler invocations.
NWorkers == 2

\* Attachments plus embedded files of one message.
MaxItems == 2

Workers == 1..NWorkers

\* ------------------------------------------------------------ data streams

\* The bytes behind every attachment and embedded-file reader.
DataBytes == <<1, 2, 3>>

\* Offsets at which a failing reader fails: before any byte, after two.
FailPoints == {0, 2}

\* An io.Reader: its bytes, and whether and after how many bytes it fails.
Streams ==
    {[bytes |-> DataBytes, fails |-> FALSE, at |-> 0]}
    \cup {[bytes |-> DataBytes, fails |-> TRUE, at |-> k] : k \in FailPoints}

\* A reader nobody has read from.
Fresh == [pos |-> 0, failed |-> FALSE]

\* A plausible change of ioutil.ReadAll: on an error the bytes read so far are
\* dropped.
ReadAllDropOnErr(s, st) ==
    IF st.failed THEN
        {[data |-> <<>>, err |-> TRUE, st |-> st],
         [data |-> SubSeq(s.bytes, st.pos + 1, Len(s.bytes)), err |-> FALSE,
          st |-> [pos |-> Len(s.bytes), failed |-> FALSE]]}
    ELSE IF s.fails /\ st.pos <= s.at THEN
        {[data |-> <<>>, err |-> TRUE, st |-> [pos |-> s.at, failed |-> TRUE]]}
    ELSE
        {[data |-> SubSeq(s.bytes, st.pos + 1, Len(s.bytes)), err |-> FALSE,
          st |-> [pos |-> Len(s.bytes), failed |-> FALSE]]}

\* A plausible change of the reader: reading does not consume it (every
\* ReadAll starts again at the first byte).
ReadAllRewinding(s, st) ==
    IF s.fails THEN
        {[data |-> SubSeq(s.bytes, 1, s.at), err |-> TRUE, st |-> Fresh]}
    ELSE
        {[data |-> s.bytes, err |-> FALSE, st |-> Fresh]}

\* ioutil.ReadAll(a.Data) on reader s in state st: the set of outcomes
\* [data, err, st'].  It returns the bytes read before the error together
\* with the error.  What a reader delivers after it has failed is not fixed
\* by io.Reader: either the error again, or the rest of its bytes.
ReadAll(s, st) ==
    IF st.failed THEN
        {[data |-> <<>>, err |-> TRUE, st |-> st],
         [data |-> SubSeq(s.bytes, st.pos + 1, Len(s.bytes)), err |-> FALSE,
          st |-> [pos |-> Len(s.bytes), failed |-> FALSE]]}
    ELSE IF s.fails /\ st.pos <= s.at THEN
        {[data |-> SubSeq(s.bytes, st.pos + 1, s.at), err |-> TRUE,
          st |-> [pos |-> s.at, failed |-> TRUE]]}
    ELSE
        {[data |-> SubSeq(s.bytes, st.pos + 1, Len(s.bytes)), err |-> FALSE,
          st |-> [pos |-> Len(s.bytes), failed |-> FALSE]]}

\* ------------------------------------------------------------- the inputs

SubjPlain == B(<<"h", "i">>)
SubjB64Utf8 == B(<<"=", "?", "u", "t", "f", "-", "8", "?", "B", "?", "a", "G", "k", "=", "?", "=">>)
SubjQ == B(<<"=", "?", "u", "t", "f", "-", "8", "?", "Q", "?", "h", "i", "?", "=">>)
SubjQLower == B(<<"=", "?", "U", "T", "F", "-", "8", "?", "q", "?", "h", "i", "?", "=">>)
SubjBadB64 == B(<<"=", "?", "u", "t", "f", "-", "8", "?", "B", "?", "a", "!", "?", "=">>)
SubjSix == B(<<"=", "?", "u", "t", "f", "-", "8", "?", "B", "?", "a", "?", "b", "?", "=">>)
SubjGolden == B(<<"=", "?", "w", "i", "n", "d", "o", "w", "s", "-", "1", "2", "5", "5", "?", "B", "?", "+", "e", "H", "p", "8", "O", "j", "u", "I", "P", "X", "l", "4", "f", "M", "=", "?", "=">>)
SubjHeb == B(<<"=", "?", "W", "i", "n", "d", "o", "w", "s", "-", "1", "2", "5", "5", "?", "b", "?", "+", "e", "E", "=", "?", "=">>)

AddrOk == B(<<"u", "@", "o", "k">>)
AddrNo == B(<<"u", "@", "n", "o">>)
AddrBare == B(<<"u">>)
AddrTwoAt == B(<<"u", "@", "o", "k", "@", "n", "o">>)
AddrNoLocal == B(<<"@", "o", "k">>)
AddrNoDomain == B(<<"u", "@">>)
AddrCase == B(<<"u", "@", "O", "K">>)
DomOk == B(<<"o", "k">>)

\* The values of the -domain flag: unset, and one allowed domain.
Domains == {<<>>, DomOk}

\* A *mail.Address.
MailAddr(name, address) == [Name |-> name, Address |-> address]

Sender == MailAddr("S", B(<<"s", "@", "x">>))
Carol == MailAddr("C", B(<<"c", "@", "x">>))
Dave == MailAddr("", B(<<"d", "@", "x">>))

\* Attachments and embedded files over the readers ss, named by position.
AttachmentsOf(ss) ==
    [i \in 1..Len(ss) |->
        [Filename |-> <<102, 48 + i>>, ContentType |-> "application/pdf",
         Data |-> ss[i]]]

EmbeddedOf(ss) ==
    [i \in 1..Len(ss) |->
        [CID |-> <<99, 48 + i>>, ContentType |-> "image/png", Data |-> ss[i]]]

\* The parsed mail c.Parse() returns.
MkMsg(subject, html, htmlCs, text, textCs, cc, resentFrom, atts, embs) ==
    [MessageID |-> "m1", Date |-> 1, References |-> <<"r1", "r2">>,
     ResentDate |-> 0, ResentMessageID |-> "", Subject |-> subject,
     HTMLBody |-> html, HTMLCharset |-> htmlCs,
     TextBody |-> text, TextCharset |-> textCs,
     Cc |-> cc, Bcc |-> <<>>, ReplyTo |-> <<Carol>>, InReplyTo |-> <<"r2">>,
     ResentFrom |-> resentFrom, ResentTo |-> <<>>, ResentCc |-> <<>>,
     ResentBcc |-> <<>>,
     Attachments |-> AttachmentsOf(atts), EmbeddedFiles |-> EmbeddedOf(embs)]

SeqsUpTo(S, n) == UNION {[1..k -> S] : k \in 0..n}

\* The elements of a sequence.
Range(q) == {q[i] : i \in 1..Len(q)}

\* The readers of a message: at most MaxItems attachments and embedded files.
ItemLists ==
    {p \in SeqsUpTo(Streams, MaxItems) \X SeqsUpTo(Streams, MaxItems) :
        Len(p[1]) + Len(p[2]) <= MaxItems}

\* spf.Result values and their String().
SPFNames == <<"none", "neutral", "pass", "fail", "softfail", "temperror", "permerror">>

\* c.SPF(): the verdict and the lookup error.
SPFOutcomes ==
    {[result |-> 3, err |-> FALSE], [result |-> 4, err |-> FALSE],
     [result |-> 1, err |-> TRUE]}

\* No transforming reader fails.
NoIoErr == [subj |-> FALSE, html |-> FALSE, text |-> FALSE]

\* What one transaction's smtpsrv.Context delivers: the outcome of Parse(),
\* SPF(), From() and To(), and the outcomes of the transforming readers.
MkCtx(parseErr, msg, spf, to, io) ==
    [parseErr |-> parseErr, msg |-> msg, spf |-> spf, from |-> Sender,
     to |-> MailAddr("U", to), io |-> io]

PlainMsg ==
    MkMsg(SubjPlain, SubjPlain, Utf8, SubjPlain, Utf8, <<>>, <<>>, <<>>, <<>>)

\* A transaction whose message cannot be parsed.
BadCtx == MkCtx(TRUE, PlainMsg, [result |-> 1, err |-> FALSE], AddrOk, NoIoErr)

ToAddrs ==
    {AddrOk, AddrNo, AddrBare, AddrTwoAt, AddrNoLocal, AddrNoDomain, AddrCase}

\* Transactions that vary the recipient, the readers and the SPF verdict.
FlowCtx ==
    {BadCtx} \cup
    {MkCtx(FALSE,
           MkMsg(h[1], SubjPlain, Utf8, <<249, 225>>, W1255, h[2], h[3],
                 p[1], p[2]),
           spf, to, NoIoErr) :
        h \in {<<SubjPlain, <<>>, <<>>>>, <<SubjQ, <<Carol, Dave>>, <<Dave, Carol>>>>},
        p \in ItemLists,
        spf \in {s \in SPFOutcomes : ~s.err},
        to \in ToAddrs}

Subjects ==
    {SubjPlain, SubjB64Utf8, SubjQ, SubjQLower, SubjBadB64, SubjSix,
     SubjGolden, SubjHeb}

\* A body and its declared charset.
Bodies == {<<SubjPlain, Utf8>>, <<<<249, 225>>, W1255>>, <<<<249, 104>>, Latin>>}

\* Transactions that vary the subject, the bodies and the decoding failures.
DecodeCtx ==
    {BadCtx} \cup
    {MkCtx(FALSE,
           MkMsg(subj, html[1], html[2], text[1], text[2], <<>>, <<>>,
                 atts, atts),
           [result |-> 3, err |-> FALSE], to, io) :
        subj \in Subjects, html \in Bodies, text \in Bodies,
        atts \in SeqsUpTo({[bytes |-> DataBytes, fails |-> FALSE, at |-> 0]}, 1),
        to \in {AddrOk, AddrNo},
        io \in [subj : BOOLEAN, html : BOOLEAN, text : BOOLEAN]}

\* A reader that does not fail.
GoodStream == [bytes |-> DataBytes, fails |-> FALSE, at |-> 0]

\* Transactions run concurrently: two different messages, accepted or
\* rejected by their recipient.
ConcCtx ==
    {MkCtx(FALSE,
           MkMsg(m[1], SubjPlain, Utf8, <<249, 225>>, W1255, <<>>, <<>>,
                 m[2], m[2]),
           [result |-> 3, err |-> FALSE], to, NoIoErr) :
        m \in {<<SubjPlain, <<>>>>, <<SubjHeb, <<GoodStream>>>>},
        to \in {AddrOk, AddrNo}}

\* Transactions compared in pairs: they vary the SPF outcome, the message
\* and the recipient.
PairCtx ==
    {BadCtx} \cup
    {MkCtx(FALSE,
           MkMsg(m[1], SubjPlain, Utf8, <<249, 225>>, W1255, <<>>, <<>>,
                 m[2], m[2]),
           spf, to, NoIoErr) :
        m \in {<<SubjPlain, <<>>>>, <<SubjHeb, <<GoodStream>>>>},
        spf \in SPFOutcomes,
        to \in {AddrOk, AddrNo}}

\* What the webhook answers: a transport error, or a status.
Responses ==
    {[err |-> TRUE, status |-> 0]}
    \cup {[err |-> FALSE, status |-> c] : c \in {200, 201, 500}}

\* ---------------------------------------------------------------- the state

VARIABLES
    flagDomain,  \* *flagDomain, read-only after flag.Parse()
    ctx,         \* per invocation: what its smtpsrv.Context delivers
    pc,          \* per invocation: the handler's position
    rd,          \* per invocation: the state of the parsed mail's readers
    spfResult,   \* per invocation: the local spfResult
    derr,        \* per invocation: err after each of the three decode calls
    jsonData,    \* per storage slot: the EmailMessage being built
    reads,       \* per invocation: ioutil.ReadAll calls made on a.Data
    posted,      \* per invocation: the bodies POSTed to the webhook
    resp,        \* per invocation: the answers to its POSTs
    result,      \* per invocation: the error the handler returned
    pass,        \* per invocation: which normalisation of the mail this is
    prev         \* per invocation: the message the first normalisation built

vars ==
    <<flagDomain, ctx, pc, rd, spfResult, derr, jsonData, reads, posted, resp,
      result, pass, prev>>

\* The handler's return values.
Pending == "pending"
Accepted == "nil"
ErrParse == "Cannot read your message: "
ErrDomain == "Unauthorized TO domain"
ErrE1 == "E1: Cannot accept your message due to internal error, please report that to our engineers"
ErrE2 == "E2: Cannot accept your message due to internal error, please report that to our engineers"

\* transformStdAddressToEmailAddress: each *mail.Address to an EmailAddress,
\* in order.
transformStdAddressToEmailAddress(addrs) ==
    [i \in 1..Len(addrs) |-> [Name |-> addrs[i].Name, Address |-> addrs[i].Address]]

\* time.Time.String(): the formatted timestamp of instant t.
TimeString(t) == <<"time", t>>

\* spf.Result.String()
SPFString(r) == SPFNames[r]

\* The zero EmailMessage.
ZeroMessage ==
    [ID |-> "", Date |-> <<>>, References |-> <<>>, SPFResult |-> "",
     ResentDate |-> <<>>, ResentID |-> "", Subject |-> <<>>,
     Body |-> [HTML |-> <<>>, Text |-> <<>>],
     Addresses |-> [From |-> <<>>, To |-> <<>>, Cc |-> <<>>, Bcc |-> <<>>,
                    ReplyTo |-> <<>>, InReplyTo |-> <<>>, ResentFrom |-> <<>>,
                    ResentTo |-> <<>>, ResentCc |-> <<>>, ResentBcc |-> <<>>],
     Attachments |-> <<>>, EmbeddedFiles |-> <<>>]

\* A plausible change of the handler: jsonData declared outside the closure,
\* one variable shared by every invocation.
SlotShared(w) == 1

\* The storage of jsonData: declared inside the closure (line 56), so every
\* invocation has a variable of its own.
Slot(w) == w

\* Lines 84-85: len(*flagDomain) > 0 && (len(toSplited) < 2 ||
\* toSplited[1] != *flagDomain), toSplited[1] being the second segment.
DomainRejected(address, domain) ==
    LET toSplited == Split(address, 64)
    IN  Len(domain) > 0 /\ (Len(toSplited) < 2 \/ toSplited[2] # domain)

\* A plausible change of the status test: every 2xx status accepted.
ClassifyAny2xx(r) ==
    IF r.err THEN ErrE1
    ELSE IF r.status < 200 \/ r.status >= 300 THEN ErrE2
    ELSE Accepted

\* Lines 123-131: the handler's result for the answer to the POST.
Classify(r) ==
    IF r.err THEN ErrE1
    ELSE IF r.status # 200 THEN ErrE2
    ELSE Accepted

\* A plausible change of the client: one retry after a transport error.
RetryOnce == 0 + 1

\* resty.New() (line 122): the client's retry count is left at its default.
RetryCount == 0

\* The position after the statements before the loops, and after each
\* iteration: the first loop with an item left, else the POST.
LoopPc(msg, json) ==
    IF Len(json.Attachments) < Len(msg.Attachments) THEN "att"
    ELSE IF Len(json.EmbeddedFiles) < Len(msg.EmbeddedFiles) THEN "emb"
    ELSE "post"

\* The state after construction: the invocations in `active` are about to
\* run, each on a transaction of `universe`.
InitWith(universe, active) ==
    /\ flagDomain \in Domains
    /\ \E c \in [Workers \cap active -> universe] :
           ctx = [w \in Workers |-> IF w \in active THEN c[w] ELSE BadCtx]
    /\ pc = [w \in Workers |-> IF w \in active THEN "parse" ELSE "idle"]
    /\ rd = [w \in Workers |->
                [att |-> [i \in 1..Len(ctx[w].msg.Attachments) |-> Fresh],
                 emb |-> [i \in 1..Len(ctx[w].msg.EmbeddedFiles) |-> Fresh]]]
    /\ spfResult = [w \in Workers |-> 1]
    /\ derr = [w \in Workers |-> [subj |-> FALSE, html |-> FALSE, text |-> FALSE]]
    /\ jsonData = [w \in Workers |-> ZeroMessage]
    /\ reads = [w \in Workers |-> 0]
    /\ posted = [w \in Workers |-> <<>>]
    /\ resp = [w \in Workers |-> <<>>]
    /\ result = [w \in Workers |-> Pending]
    /\ pass = [w \in Workers |-> 1]
    /\ prev = [w \in Workers |-> ZeroMessage]

\* ------------------------------------------------------------- the handler

\* Lines 42-45: msg, err := c.Parse(); return on error.
Parse(w) ==
    /\ pc[w] = "parse"
    /\ IF ctx[w].parseErr
       THEN /\ result' = [result EXCEPT ![w] = ErrParse]
            /\ pc' = [pc EXCEPT ![w] = "done"]
       ELSE /\ pc' = [pc EXCEPT ![w] = "spf"]
            /\ UNCHANGED result
    /\ UNCHANGED <<flagDomain, ctx, rd, spfResult, derr, jsonData, reads,
                   posted, resp, pass, prev>>

\* A plausible change of the handler: a message whose SPF verdict is fail is
\* rejected.
SPFEnforced(w) ==
    /\ pc[w] = "spf"
    /\ spfResult' = [spfResult EXCEPT ![w] = ctx[w].spf.result]
    /\ IF ctx[w].spf.result = 4
       THEN /\ result' = [result EXCEPT ![w] = ErrDomain]
            /\ pc' = [pc EXCEPT ![w] = "done"]
       ELSE /\ pc' = [pc EXCEPT ![w] = "subject"]
            /\ UNCHANGED result
    /\ UNCHANGED <<flagDomain, ctx, rd, derr, jsonData, reads, posted, resp,
                   pass, prev>>

\* Line 47: spfResult, _, _ := c.SPF(); the lookup error is dropped.
SPF(w) ==
    /\ pc[w] = "spf"
    /\ spfResult' = [spfResult EXCEPT ![w] = ctx[w].spf.result]
    /\ pc' = [pc EXCEPT ![w] = "subject"]
    /\ UNCHANGED <<flagDomain, ctx, rd, derr, jsonData, reads, posted, resp,
                   result, pass, prev>>

\* Lines 49-66: decode the subject, fall back to the raw subject on an error,
\* and build jsonData.
DecodeSubject(w) ==
    /\ pc[w] = "subject"
    /\ LET msg == ctx[w].msg
           dec == decodeMIMEHeader(msg.Subject, ctx[w].io.subj)
           decodedSubject == IF dec.err THEN msg.Subject ELSE dec.val
       IN  /\ derr' = [derr EXCEPT ![w] =
                          [subj |-> dec.err, html |-> FALSE, text |-> FALSE]]
           /\ jsonData' = [jsonData EXCEPT ![Slot(w)] =
                  [ZeroMessage EXCEPT
                      !.ID = msg.MessageID,
                      !.Date = TimeString(msg.Date),
                      !.References = msg.References,
                      !.SPFResult = SPFString(spfResult[w]),
                      !.ResentDate = TimeString(msg.ResentDate),
                      !.ResentID = msg.ResentMessageID,
                      !.Subject = decodedSubject]]
    /\ pc' = [pc EXCEPT ![w] = "body"]
    /\ UNCHANGED <<flagDomain, ctx, rd, spfResult, reads, posted, resp, result,
                   pass, prev>>

\* A plausible change of the handler: a body that cannot be decoded ends the
\* transaction with an error.
DecodeBodyFatal(w) ==
    /\ pc[w] = "body"
    /\ LET msg  == ctx[w].msg
           html == decodeCharset(msg.HTMLBody, msg.HTMLCharset, ctx[w].io.html)
           text == decodeCharset(msg.TextBody, msg.TextCharset, ctx[w].io.text)
       IN  /\ derr' = [derr EXCEPT ![w].html = html.err, ![w].text = text.err]
           /\ jsonData' = [jsonData EXCEPT
                  ![Slot(w)].Body.HTML = html.val,
                  ![Slot(w)].Body.Text = text.val]
           /\ IF html.err \/ text.err
              THEN /\ result' = [result EXCEPT ![w] = ErrParse]
                   /\ pc' = [pc EXCEPT ![w] = "done"]
              ELSE /\ pc' = [pc EXCEPT ![w] = "domain"]
                   /\ UNCHANGED result
    /\ UNCHANGED <<flagDomain, ctx, rd, spfResult, reads, posted, resp, pass,
                   prev>>

\* Lines 68-79: decode both bodies, each falling back to its raw bytes.
DecodeBody(w) ==
    /\ pc[w] = "body"
    /\ LET msg  == ctx[w].msg
           html == decodeCharset(msg.HTMLBody, msg.HTMLCharset, ctx[w].io.html)
           text == decodeCharset(msg.TextBody, msg.TextCharset, ctx[w].io.text)
       IN  /\ derr' = [derr EXCEPT ![w].html = html.err, ![w].text = text.err]
           /\ jsonData' = [jsonData EXCEPT
                  ![Slot(w)].Body.HTML = IF html.err THEN msg.HTMLBody ELSE html.val,
                  ![Slot(w)].Body.Text = IF text.err THEN msg.TextBody ELSE text.val]
    /\ pc' = [pc EXCEPT ![w] = "domain"]
    /\ UNCHANGED <<flagDomain, ctx, rd, spfResult, reads, posted, resp, result,
                   pass, prev>>

\* A plausible change of the domain check: the rejection is logged but the
\* handler does not return.
DomainCheckNoReturn(w) ==
    /\ pc[w] = "domain"
    /\ LET msg == ctx[w].msg
           from == transformStdAddressToEmailAddress(<<ctx[w].from>>)[1]
           to == transformStdAddressToEmailAddress(<<ctx[w].to>>)[1]
           withTo == [jsonData[Slot(w)] EXCEPT !.Addresses.From = from,
                                               !.Addresses.To = to]
       IN  /\ jsonData' = [jsonData EXCEPT ![Slot(w)] = withTo]
           /\ pc' = [pc EXCEPT ![w] = LoopPc(msg, withTo)]
           /\ UNCHANGED result
    /\ UNCHANGED <<flagDomain, ctx, rd, spfResult, derr, reads, posted, resp,
                   pass, prev>>

\* Lines 81-102: the envelope addresses, the domain check (return on a
\* rejection), then the remaining address lists.
DomainCheck(w) ==
    /\ pc[w] = "domain"
    /\ LET msg == ctx[w].msg
           from == transformStdAddressToEmailAddress(<<ctx[w].from>>)[1]
           to == transformStdAddressToEmailAddress(<<ctx[w].to>>)[1]
           withTo == [jsonData[Slot(w)] EXCEPT !.Addresses.From = from,
                                               !.Addresses.To = to]
           resentFrom == transformStdAddressToEmailAddress(msg.ResentFrom)
           full == [withTo EXCEPT
                      !.Addresses.Cc = transformStdAddressToEmailAddress(msg.Cc),
                      !.Addresses.Bcc = transformStdAddressToEmailAddress(msg.Bcc),
                      !.Addresses.ReplyTo = transformStdAddressToEmailAddress(msg.ReplyTo),
                      !.Addresses.InReplyTo = msg.InReplyTo,
                      !.Addresses.ResentFrom =
                          IF Len(resentFrom) > 0 THEN <<resentFrom[1]>> ELSE <<>>,
                      !.Addresses.ResentTo = transformStdAddressToEmailAddress(msg.ResentTo),
                      !.Addresses.ResentCc = transformStdAddressToEmailAddress(msg.ResentCc),
                      !.Addresses.ResentBcc = transformStdAddressToEmailAddress(msg.ResentBcc)]
       IN  IF DomainRejected(to.Address, flagDomain)
           THEN /\ jsonData' = [jsonData EXCEPT ![Slot(w)] = withTo]
                /\ result' = [result EXCEPT ![w] = ErrDomain]
                /\ pc' = [pc EXCEPT ![w] = "done"]
           ELSE /\ jsonData' = [jsonData EXCEPT ![Slot(w)] = full]
                /\ pc' = [pc EXCEPT ![w] = LoopPc(msg, full)]
                /\ UNCHANGED result
    /\ UNCHANGED <<flagDomain, ctx, rd, spfResult, derr, reads, posted, resp,
                   pass, prev>>

\* Lines 104-111: one iteration of the attachment loop.
ReadAttachment(w) ==
    /\ pc[w] = "att"
    /\ LET msg == ctx[w].msg
           i == Len(jsonData[Slot(w)].Attachments) + 1
           a == msg.Attachments[i]
       IN  \E o \in ReadAll(a.Data, rd[w].att[i]) :
               LET json == [jsonData[Slot(w)] EXCEPT !.Attachments =
                               Append(@, [Filename |-> a.Filename,
                                          ContentType |-> a.ContentType,
                                          Data |-> EncodeToString(o.data)])]
               IN  /\ rd' = [rd EXCEPT ![w].att[i] = o.st]
                   /\ jsonData' = [jsonData EXCEPT ![Slot(w)] = json]
                   /\ pc' = [pc EXCEPT ![w] = LoopPc(msg, json)]
    /\ reads' = [reads EXCEPT ![w] = @ + 1]
    /\ UNCHANGED <<flagDomain, ctx, spfResult, derr, posted, resp, result,
                   pass, prev>>

\* Lines 113-120: one iteration of the embedded-file loop.
ReadEmbedded(w) ==
    /\ pc[w] = "emb"
    /\ LET msg == ctx[w].msg
           i == Len(jsonData[Slot(w)].EmbeddedFiles) + 1
           a == msg.EmbeddedFiles[i]
       IN  \E o \in ReadAll(a.Data, rd[w].emb[i]) :
               LET json == [jsonData[Slot(w)] EXCEPT !.EmbeddedFiles =
                               Append(@, [CID |-> a.CID,
                                          ContentType |-> a.ContentType,
                                          Data |-> EncodeToString(o.data)])]
               IN  /\ rd' = [rd EXCEPT ![w].emb[i] = o.st]
                   /\ jsonData' = [jsonData EXCEPT ![Slot(w)] = json]
                   /\ pc' = [pc EXCEPT ![w] = LoopPc(msg, json)]
    /\ reads' = [reads EXCEPT ![w] = @ + 1]
    /\ UNCHANGED <<flagDomain, ctx, spfResult, derr, posted, resp, result,
                   pass, prev>>

\* Lines 122-131: POST jsonData, and return by the answer.  The client
\* repeats a request that failed in transport while retries are left.
Post(w) ==
    /\ pc[w] = "post"
    /\ \E r \in Responses :
        /\ posted' = [posted EXCEPT ![w] = Append(@, jsonData[Slot(w)])]
        /\ resp' = [resp EXCEPT ![w] = Append(@, r)]
        /\ IF r.err /\ Len(posted[w]) < RetryCount
           THEN UNCHANGED <<pc, result>>
           ELSE /\ result' = [result EXCEPT ![w] = Classify(r)]
                /\ pc' = [pc EXCEPT ![w] = "done"]
    /\ UNCHANGED <<flagDomain, ctx, rd, spfResult, derr, jsonData, reads,
                   pass, prev>>

\* One step of invocation w.
Step(w) ==
    \/ Parse(w)
    \/ SPF(w)
    \/ DecodeSubject(w)
    \/ DecodeBody(w)
    \/ DomainCheck(w)
    \/ ReadAttachment(w)
    \/ ReadEmbedded(w)
    \/ Post(w)

Next == \E w \in Workers : Step(w)

\* One invocation, over the transactions that vary recipient and readers.
Init == InitWith(FlowCtx, {1})

Spec == Init /\ [][Next]_vars

\* One invocation, over the transactions that vary what is decoded.
InitDecode == InitWith(DecodeCtx, {1})

SpecDecode == InitDecode /\ [][Next]_vars

\* Every invocation running, interleaved in any order.
InitConc == InitWith(ConcCtx, Workers)

SpecConc == InitConc /\ [][Next]_vars

\* Two invocations, over the transactions that vary the SPF outcome.
InitPair == InitWith(PairCtx, {1, 2})

SpecPair == InitPair /\ [][Next]_vars

\* Lines 49-120 run a second time on the same parsed mail: the message of the
\* first run is kept in prev, and the mail's readers stay as the first run
\* left them.
Renormalize(w) ==
    /\ pc[w] = "post"
    /\ pass[w] = 1
    /\ prev' = [prev EXCEPT ![w] = jsonData[Slot(w)]]
    /\ pass' = [pass EXCEPT ![w] = 2]
    /\ pc' = [pc EXCEPT ![w] = "subject"]
    /\ UNCHANGED <<flagDomain, ctx, rd, spfResult, derr, jsonData, reads,
                   posted, resp, result>>

NextTwice == \E w \in Workers : Step(w) \/ Renormalize(w)

SpecTwice == Init /\ [][NextTwice]_vars

\* ------------------------------------------------------------- the claims

\* Invocation w has parsed its message.
Parsed(w) == pc[w] \notin {"idle", "parse"} /\ ~ctx[w].parseErr

\* Invocation w has parsed its message and run the domain check.
Checked(w) == Parsed(w) /\ pc[w] \in {"att", "emb", "post", "done"}

\* The bytes a reader delivers to the first ReadAll on it.
FirstRead(s) == IF s.fails THEN SubSeq(s.bytes, 1, s.at) ELSE s.bytes

\* C1: when the allowed domain is set and the To address is rejected for its
\* domain (no second segment, or one that differs), the handler returns
\* "Unauthorized TO domain", and in that invocation no attachment or
\* embedded-file reader is ever read and no POST is ever issued.
C1_DomainRejectionStopsProcessing ==
    \A w \in Workers :
        /\ (Checked(w) /\ Len(flagDomain) > 0
              /\ LET parts == Split(ctx[w].to.Address, 64)
                 IN  Len(parts) < 2 \/ parts[2] # flagDomain)
           => (pc[w] = "done" /\ result[w] = ErrDomain)
        /\ result[w] = ErrDomain
           => (pc[w] = "done" /\ reads[w] = 0 /\ posted[w] = <<>>
                 /\ (\A i \in DOMAIN rd[w].att : rd[w].att[i] = Fresh)
                 /\ (\A j \in DOMAIN rd[w].emb : rd[w].emb[j] = Fresh))

C1_Witness ==
    \E w \in Workers :
        /\ pc[w] = "done" /\ result[w] = ErrDomain
        /\ flagDomain = DomOk /\ ctx[w].to.Address = AddrNo
        /\ Len(ctx[w].msg.Attachments) > 0
        /\ Len(ctx[w].msg.EmbeddedFiles) > 0

\* The address does not split on '@' into exactly 2 non-empty parts.
Malformed(address) ==
    LET parts == Split(address, 64)
    IN  ~(Len(parts) = 2 /\ Len(parts[1]) > 0 /\ Len(parts[2]) > 0)

\* C2: when the allowed domain is set, every To address that does not split
\* on '@' into exactly 2 non-empty parts is rejected with "Unauthorized TO
\* domain".
C2_MalformedToRejected ==
    \A w \in Workers :
        (Checked(w) /\ Len(flagDomain) > 0 /\ Malformed(ctx[w].to.Address))
        => result[w] = ErrDomain

\* C3: a transaction that passes parsing and the domain check ends with the
\* result the webhook's answer alone decides: accepted exactly for status
\* 200, E1 for a transport failure, E2 for every other status.
C3_ResultByWebhookAlone ==
    \A w \in Workers :
        (Checked(w) /\ pc[w] = "done"
           /\ ~DomainRejected(ctx[w].to.Address, flagDomain))
        => /\ Len(resp[w]) >= 1
           /\ LET r == resp[w][Len(resp[w])]
              IN  /\ result[w] = Accepted <=> (~r.err /\ r.status = 200)
                  /\ r.err => result[w] = ErrE1
                  /\ (~r.err /\ r.status # 200) => result[w] = ErrE2

C3_Witness ==
    \E w \in Workers :
        /\ pc[w] = "done" /\ result[w] = ErrE2
        /\ Len(resp[w]) = 1 /\ resp[w][1].status = 201

\* C4: an invocation issues at most one POST: none on the parse-failure and
\* domain-rejection paths, and none after the answer to the first.
C4_AtMostOnePost ==
    \A w \in Workers :
        /\ Len(posted[w]) <= 1
        /\ Len(resp[w]) = Len(posted[w])
        /\ result[w] \in {ErrParse, ErrDomain} => posted[w] = <<>>
        /\ Len(posted[w]) = 1 => pc[w] = "done"

C4_Witness ==
    \E w \in Workers :
        pc[w] = "done" /\ result[w] = ErrE1 /\ Len(posted[w]) = 1

\* The header value is one encoded word =?CHARSET?Q?TEXT?=, Q in any case.
IsQWord(s) ==
    /\ HasPrefix(s, <<61, 63>>)
    /\ HasSuffix(s, <<63, 61>>)
    /\ Len(Split(s, 63)) = 5
    /\ ToLower(Split(s, 63)[3]) = <<113>>

\* C5 as stated: for a subject of the form =?CHARSET?Q?TEXT?= the call of
\* decodeMIMEHeader returns an error, and the message carries the raw
\* subject.
C5_QWordReportsFailure ==
    \A w \in Workers :
        (Parsed(w) /\ pc[w] \notin {"spf", "subject"}
           /\ IsQWord(ctx[w].msg.Subject))
        => (derr[w].subj /\ jsonData[w].Subject = ctx[w].msg.Subject)

\* C5 as amended: for a subject of the form =?CHARSET?Q?TEXT?= the call of
\* decodeMIMEHeader returns the value unchanged and no error, and the
\* message carries the raw subject.
C5_QWordReturnedUnchanged ==
    \A w \in Workers :
        (Parsed(w) /\ pc[w] \notin {"spf", "subject"}
           /\ IsQWord(ctx[w].msg.Subject))
        => /\ ~derr[w].subj
           /\ jsonData[w].Subject = ctx[w].msg.Subject
           /\ \A m \in Range(posted[w]) : m.Subject = ctx[w].msg.Subject

C5_Witness ==
    \E w \in Workers :
        /\ pc[w] = "done" /\ Len(posted[w]) = 1
        /\ ctx[w].msg.Subject = SubjQLower
        /\ IsQWord(ctx[w].msg.Subject)
        /\ posted[w][1].Subject = SubjQLower

\* The entries the two loops build from a first read of every reader, with
\* payload(s) the bytes taken from reader s.
AttachmentEntries(msg, payload(_)) ==
    [i \in 1..Len(msg.Attachments) |->
        [Filename |-> msg.Attachments[i].Filename,
         ContentType |-> msg.Attachments[i].ContentType,
         Data |-> EncodeToString(payload(msg.Attachments[i].Data))]]

EmbeddedEntries(msg, payload(_)) ==
    [i \in 1..Len(msg.EmbeddedFiles) |->
        [CID |-> msg.EmbeddedFiles[i].CID,
         ContentType |-> msg.EmbeddedFiles[i].ContentType,
         Data |-> EncodeToString(payload(msg.EmbeddedFiles[i].Data))]]

\* The bytes of a reader that does not fail, none of one that does.
NoneIfFailed(s) == IF s.fails THEN <<>> ELSE s.bytes

\* C6 as stated: an item whose reader fails, at any point, has an entry at
\* its position with an empty payload; the other items are materialised in
\* full and the message is POSTed.
C6_FailedReadGivesEmptyPayload ==
    \A w \in Workers :
        (Checked(w) /\ pc[w] \in {"post", "done"} /\ result[w] # ErrDomain)
        => /\ jsonData[w].Attachments = AttachmentEntries(ctx[w].msg, NoneIfFailed)
           /\ jsonData[w].EmbeddedFiles = EmbeddedEntries(ctx[w].msg, NoneIfFailed)
           /\ pc[w] = "done" => posted[w] = <<jsonData[w]>>

\* C6 as amended: an item whose reader fails has an entry at its position
\* whose payload is the base64 of the bytes delivered before the failure
\* (empty only when it failed before the first byte); the other items are
\* materialised in full and the message is POSTed.
C6_FailedReadKeepsPrefix ==
    \A w \in Workers :
        (Checked(w) /\ pc[w] \in {"post", "done"} /\ result[w] # ErrDomain)
        => /\ jsonData[w].Attachments = AttachmentEntries(ctx[w].msg, FirstRead)
           /\ jsonData[w].EmbeddedFiles = EmbeddedEntries(ctx[w].msg, FirstRead)
           /\ pc[w] = "done" => posted[w] = <<jsonData[w]>>

C6_Witness ==
    \E w \in Workers :
        /\ pc[w] = "done" /\ Len(posted[w]) = 1
        /\ Len(ctx[w].msg.Attachments) = 2
        /\ ctx[w].msg.Attachments[1].Data = [bytes |-> DataBytes, fails |-> TRUE, at |-> 2]
        /\ ~ctx[w].msg.Attachments[2].Data.fails
        /\ posted[w][1].Attachments[1].Data = B(<<"A", "Q", "I", "=">>)
        /\ posted[w][1].Attachments[2].Data = B(<<"A", "Q", "I", "D">>)

\* The message with every payload blanked.
WithoutPayloads(m) ==
    [m EXCEPT
        !.Attachments = [i \in 1..Len(m.Attachments) |->
                            [m.Attachments[i] EXCEPT !.Data = <<>>]],
        !.EmbeddedFiles = [i \in 1..Len(m.EmbeddedFiles) |->
                              [m.EmbeddedFiles[i] EXCEPT !.Data = <<>>]]]

\* C7 as stated: the second normalisation of the same parsed mail builds the
\* message the first one built.
C7_RenormalizeIdentical ==
    \A w \in Workers :
        (pass[w] = 2 /\ pc[w] \in {"post", "done"} /\ result[w] # ErrDomain)
        => jsonData[w] = prev[w]

\* C7 as amended: the second normalisation builds a message equal to the
\* first in every field but the payloads, and the payload of every item
\* whose reader the first normalisation read to its end is empty.
C7_RenormalizeSameButPayloads ==
    \A w \in Workers :
        (pass[w] = 2 /\ pc[w] \in {"post", "done"} /\ result[w] # ErrDomain)
        => /\ WithoutPayloads(jsonData[w]) = WithoutPayloads(prev[w])
           /\ prev[w].Attachments = AttachmentEntries(ctx[w].msg, FirstRead)
           /\ prev[w].EmbeddedFiles = EmbeddedEntries(ctx[w].msg, FirstRead)
           /\ \A i \in 1..Len(ctx[w].msg.Attachments) :
                ~ctx[w].msg.Attachments[i].Data.fails
                => jsonData[w].Attachments[i].Data = <<>>
           /\ \A i \in 1..Len(ctx[w].msg.EmbeddedFiles) :
                ~ctx[w].msg.EmbeddedFiles[i].Data.fails
                => jsonData[w].EmbeddedFiles[i].Data = <<>>

C7_Witness ==
    \E w \in Workers :
        /\ pass[w] = 2 /\ pc[w] = "done" /\ Len(posted[w]) = 1
        /\ Len(ctx[w].msg.Attachments) >= 1
        /\ ~ctx[w].msg.Attachments[1].Data.fails
        /\ prev[w].Attachments[1].Data = B(<<"A", "Q", "I", "D">>)
        /\ jsonData[w].Attachments[1].Data = <<>>

\* C8: no decoding failure is fatal: a parsed message that passes the domain
\* check is at a statement of the handler until the handler returns, it
\* returns only after the POST, with a result the webhook decided, and in the
\* POSTed message each of subject, HTML body and text body is the raw value
\* where its decoding failed and the decoded value where it did not.
C8_DecodeFailuresNotFatal ==
    \A w \in Workers :
        (Parsed(w) /\ ~DomainRejected(ctx[w].to.Address, flagDomain))
        => LET c    == ctx[w]
               subj == decodeMIMEHeader(c.msg.Subject, c.io.subj)
               html == convertToUTF8(c.msg.HTMLBody, c.msg.HTMLCharset, c.io.html)
               text == convertToUTF8(c.msg.TextBody, c.msg.TextCharset, c.io.text)
           IN  /\ pc[w] # "done" =>
                    /\ pc[w] \in {"spf", "subject", "body", "domain", "att",
                                  "emb", "post"}
                    /\ result[w] = Pending
               /\ pc[w] = "done" =>
                    /\ Len(posted[w]) = 1
                    /\ result[w] \in {Accepted, ErrE1, ErrE2}
                    /\ derr[w] = [subj |-> subj.err, html |-> html.err,
                                  text |-> text.err]
                    /\ posted[w][1].Subject =
                          IF subj.err THEN c.msg.Subject ELSE subj.val
                    /\ posted[w][1].Body.HTML =
                          IF html.err THEN c.msg.HTMLBody ELSE html.val
                    /\ posted[w][1].Body.Text =
                          IF text.err THEN c.msg.TextBody ELSE text.val

C8_Witness ==
    \E w \in Workers :
        /\ pc[w] = "done" /\ Len(posted[w]) = 1
        /\ derr[w] = [subj |-> TRUE, html |-> TRUE, text |-> FALSE]
        /\ posted[w][1].Subject = SubjBadB64
        /\ posted[w][1].Body.HTML = <<249, 225>>
        /\ posted[w][1].Body.Text = <<215, 169, 215, 145>>

\* The message a transaction run alone is normalised to.
SoloMessage(c) ==
    LET msg  == c.msg
        subj == decodeMIMEHeader(msg.Subject, c.io.subj)
        html == decodeCharset(msg.HTMLBody, msg.HTMLCharset, c.io.html)
        text == decodeCharset(msg.TextBody, msg.TextCharset, c.io.text)
        resentFrom == transformStdAddressToEmailAddress(msg.ResentFrom)
    IN  [ID |-> msg.MessageID, Date |-> TimeString(msg.Date),
         References |-> msg.References, SPFResult |-> SPFString(c.spf.result),
         ResentDate |-> TimeString(msg.ResentDate),
         ResentID |-> msg.ResentMessageID,
         Subject |-> IF subj.err THEN msg.Subject ELSE subj.val,
         Body |-> [HTML |-> IF html.err THEN msg.HTMLBody ELSE html.val,
                   Text |-> IF text.err THEN msg.TextBody ELSE text.val],
         Addresses |->
            [From |-> transformStdAddressToEmailAddress(<<c.from>>)[1],
             To |-> transformStdAddressToEmailAddress(<<c.to>>)[1],
             Cc |-> transformStdAddressToEmailAddress(msg.Cc),
             Bcc |-> transformStdAddressToEmailAddress(msg.Bcc),
             ReplyTo |-> transformStdAddressToEmailAddress(msg.ReplyTo),
             InReplyTo |-> msg.InReplyTo,
             ResentFrom |-> IF Len(resentFrom) > 0 THEN <<resentFrom[1]>> ELSE <<>>,
             ResentTo |-> transformStdAddressToEmailAddress(msg.ResentTo),
             ResentCc |-> transformStdAddressToEmailAddress(msg.ResentCc),
             ResentBcc |-> transformStdAddressToEmailAddress(msg.ResentBcc)],
         Attachments |-> AttachmentEntries(msg, FirstRead),
         EmbeddedFiles |-> EmbeddedEntries(msg, FirstRead)]

\* C9: under any interleaving, what an invocation POSTs and returns is what
\* its own transaction, the configuration and the webhook's answer to it
\* give when it runs alone.
C9_OutcomeAsIfAlone ==
    \A w \in Workers :
        pc[w] = "done" =>
            IF ctx[w].parseErr
            THEN result[w] = ErrParse /\ posted[w] = <<>>
            ELSE IF DomainRejected(ctx[w].to.Address, flagDomain)
            THEN result[w] = ErrDomain /\ posted[w] = <<>>
            ELSE /\ posted[w] = <<SoloMessage(ctx[w])>>
                 /\ Len(resp[w]) = 1
                 /\ result[w] = Classify(resp[w][1])

C9_Witness ==
    /\ \A w \in Workers : pc[w] = "done" /\ Len(posted[w]) = 1
    /\ posted[1][1].Subject = SubjPlain
    /\ posted[2][1].Subject = <<215, 169, 215, 145>>
    /\ result[1] = Accepted
    /\ result[2] = ErrE2

\* C10: two transactions that differ in nothing but the SPF outcome, and
\* whose POSTs, as far as both issue them, get the same answers from the
\* webhook, return the same result and POST messages that differ in nothing
\* but spfResult.
C10_SpfDoesNotDecide ==
    \A v, w \in Workers :
        (/\ pc[v] = "done" /\ pc[w] = "done"
         /\ [ctx[v] EXCEPT !.spf = ctx[w].spf] = ctx[w]
         /\ \A i \in DOMAIN resp[v] \cap DOMAIN resp[w] : resp[v][i] = resp[w][i])
        => /\ result[v] = result[w]
           /\ Len(posted[v]) = Len(posted[w])
           /\ \A i \in 1..Len(posted[v]) :
                /\ [posted[v][i] EXCEPT !.SPFResult = posted[w][i].SPFResult]
                      = posted[w][i]
                /\ posted[v][i].SPFResult = SPFString(ctx[v].spf.result)

C10_Witness ==
    /\ pc[1] = "done" /\ pc[2] = "done"
    /\ ctx[1].spf = [result |-> 3, err |-> FALSE]
    /\ ctx[2].spf = [result |-> 1, err |-> TRUE]
    /\ [ctx[1] EXCEPT !.spf = ctx[2].spf] = ctx[2]
    /\ result[1] = Accepted /\ result[2] = Accepted
    /\ posted[1][1].SPFResult = "pass" /\ posted[2][1].SPFResult = "none"

====
